---- MODULE Spec2Model ----
(***************************************************************************)
(* examples/h2o/exec_model.py: a straight-line script that initialises the *)
(* H2O runtime, loads a model artifact from a fixed path, builds a one-row *)
(* frame from a literal, names its columns, predicts and prints.           *)
(*                                                                         *)
(* The model runs NRuns independent executions of the script against one   *)
(* environment (the backend and the artifact on disk).  A run's position   *)
(* is the line number of its next statement.  A Python exception that no   *)
(* handler catches ends the process with exit status 1.                    *)
(*                                                                         *)
(* The h2o calls are the external library's: which of them can raise, and  *)
(* when, is the library's contract (a call that reaches the backend fails  *)
(* when the backend does not answer; load_model fails on a path that holds *)
(* no loadable model; the columns setter fails on a wrong number of names; *)
(* predict on a frame that does not match the trained schema either fails  *)
(* or returns a value).  The order of the calls and the absence of any     *)
(* handler are the script's.                                               *)
(*                                                                         *)
(* Numeric literals are kept in thousandths (0.27 is 270), unbound Python  *)
(* names are the empty sequence and a bound name is a one-element one.     *)
(***************************************************************************)
EXTENDS Integers, Sequences, FiniteSets

VARIABLES backend, artifact, pc, connected, model, my_wine, wine_frame,
          predictions, stdout, raised, exit_code, log

vars == <<backend, artifact, pc, connected, model, my_wine, wine_frame,
          predictions, stdout, raised, exit_code, log>>

\* Number of executions of the script that are observed side by side.
NRuns == 2

Runs == 1..NRuns

\* ------------------------------------------------------------------ values

Unbound == <<>>

Bound(x) == <<x>>

IsBound(v) == v # Unbound

ValueOf(v) == v[1]

\* ------------------------------------------------------- the script's text

\* Line 7, in thousandths.
MyWineLiteral == <<7000, 270, 360, 20700, 45, 45000, 170000, 1001, 3000, 450, 8800>>

WineColumnsSwapped == <<"fixed acidity", "volatile acidity", "citric acid", "residual sugar",
                        "chlorides", "total sulfur dioxide", "free sulfur dioxide",
                        "density", "pH", "sulphates", "alcohol">>

\* Lines 10-12.
WineColumns == <<"fixed acidity", "volatile acidity", "citric acid", "residual sugar",
                 "chlorides", "free sulfur dioxide", "total sulfur dioxide",
                 "density", "pH", "sulphates", "alcohol">>

\* Statement order with the prediction moved above the column assignment.
NextLineSwapped(l) == CASE l = 3 -> 4
                        [] l = 4 -> 7
                        [] l = 7 -> 8
                        [] l = 8 -> 13
                        [] l = 13 -> 10
                        [] l = 10 -> 14
                        [] l = 14 -> 15
                        [] OTHER -> 15

\* The statement that follows the statement at line l; 15 is the end of file.
NextLine(l) == CASE l = 3 -> 4
                 [] l = 4 -> 7
                 [] l = 7 -> 8
                 [] l = 8 -> 10
                 [] l = 10 -> 13
                 [] l = 13 -> 14
                 [] l = 14 -> 15
                 [] OTHER -> 15

\* ------------------------------------------------------------- environment

BackendStates == {"ok", "unreachable", "version_mismatch"}

Models == {"DRF_wine", "DRF_other"}

ArtifactStates == {"missing", "corrupt"} \cup Models

\* The columns a model artifact was trained on (line 9: the names of lines
\* 10-12 are those of the training data of the model the script expects).
OtherColumns == <<"sepal_len", "sepal_wid", "petal_len", "petal_wid">>

TrainedColumns(m) == IF m = "DRF_wine" THEN WineColumns ELSE OtherColumns

\* ------------------------------------------------------- the H2O library

\* Default column names of a frame built without a header.
DefaultHeader == <<"C1", "C2", "C3", "C4", "C5", "C6", "C7", "C8", "C9", "C10",
                   "C11", "C12">>

GenHeader(n) == SubSeq(DefaultHeader, 1, n)

\* A call that talks to the backend needs the process-wide connection that
\* h2o.init() sets up and a backend that answers.
Reachable(r) == connected[r] /\ backend = "ok"

\* h2o.H2OFrame(rows): a list of lists is a list of rows.
H2OFrame(rows) == [rows |-> rows, names |-> GenHeader(Len(rows[1]))]

NCol(f) == Len(f.names)

\* model.predict(frame): opaque, fixed by the artifact and the frame.
Prediction(m, f) == [model |-> m, rows |-> f.rows, names |-> f.names]

\* print(x) writes the library's text for x.
Repr(p) == [repr_of |-> p]

\* ------------------------------------------------------------ the runs

Running(r) == exit_code[r] = Unbound

At(r, l) == Running(r) /\ pc[r] = l

Logged(r, step, outcome) == Append(log[r], [step |-> step, outcome |-> outcome])

\* The statement at pc[r] completed: go on to the next one.
Advance(r, step) ==
    /\ pc' = [pc EXCEPT ![r] = NextLine(pc[r])]
    /\ log' = [log EXCEPT ![r] = Logged(r, step, "ok")]
    /\ UNCHANGED <<raised, exit_code>>

\* An exception handler that passes: the script goes on with the next line.
RaiseSwallowed(r, step, exc) ==
    /\ pc' = [pc EXCEPT ![r] = NextLine(pc[r])]
    /\ log' = [log EXCEPT ![r] = Logged(r, step, "raise")]
    /\ UNCHANGED <<raised, exit_code>>

\* A retry loop around the failing statement: it is run again.
RaiseRetried(r, step, exc) ==
    /\ UNCHANGED <<pc, log, raised, exit_code>>

\* The statement at pc[r] raised: no handler exists, the process ends with
\* status 1 at that statement.
Raise(r, step, exc) ==
    /\ raised' = [raised EXCEPT ![r] = Bound(exc)]
    /\ exit_code' = [exit_code EXCEPT ![r] = Bound(1)]
    /\ log' = [log EXCEPT ![r] = Logged(r, step, "raise")]
    /\ UNCHANGED pc

\* Line 3: h2o.init()
H2oInit(r) ==
    /\ At(r, 3)
    /\ IF backend = "ok"
         THEN /\ connected' = [connected EXCEPT ![r] = TRUE]
              /\ Advance(r, "init")
         ELSE /\ Raise(r, "init", "H2OConnectionError")
              /\ UNCHANGED connected
    /\ UNCHANGED <<backend, artifact, model, my_wine, wine_frame, predictions, stdout>>

\* Line 4 with the load wrapped in a handler that leaves model unbound.
LoadModelCaught(r) ==
    /\ At(r, 4)
    /\ IF Reachable(r) /\ artifact \in Models
         THEN /\ model' = [model EXCEPT ![r] = Bound(artifact)]
              /\ Advance(r, "load")
         ELSE /\ RaiseSwallowed(r, "load", "H2OResponseError")
              /\ UNCHANGED model
    /\ UNCHANGED <<backend, artifact, connected, my_wine, wine_frame, predictions, stdout>>

\* Line 4: model = h2o.load_model(ModelPath)
LoadModel(r) ==
    /\ At(r, 4)
    /\ IF Reachable(r) /\ artifact \in Models
         THEN /\ model' = [model EXCEPT ![r] = Bound(artifact)]
              /\ Advance(r, "load")
         ELSE /\ Raise(r, "load", "H2OResponseError")
              /\ UNCHANGED model
    /\ UNCHANGED <<backend, artifact, connected, my_wine, wine_frame, predictions, stdout>>

\* Line 7 with a first value that differs from run to run.
MyWineRunDependent(r) ==
    /\ At(r, 7)
    /\ my_wine' = [my_wine EXCEPT ![r] = Bound([MyWineLiteral EXCEPT ![1] = r * 1000])]
    /\ Advance(r, "row")
    /\ UNCHANGED <<backend, artifact, connected, model, wine_frame, predictions, stdout>>

\* Line 7: my_wine = [7, 0.27, ...]
MyWine(r) ==
    /\ At(r, 7)
    /\ my_wine' = [my_wine EXCEPT ![r] = Bound(MyWineLiteral)]
    /\ Advance(r, "row")
    /\ UNCHANGED <<backend, artifact, connected, model, wine_frame, predictions, stdout>>

\* Line 8: wine_frame = h2o.H2OFrame([my_wine])
WineFrame(r) ==
    /\ At(r, 8)
    /\ IF Reachable(r) /\ IsBound(my_wine[r])
         THEN /\ wine_frame' = [wine_frame EXCEPT ![r] = Bound(H2OFrame(<<ValueOf(my_wine[r])>>))]
              /\ Advance(r, "frame")
         ELSE /\ Raise(r, "frame", "H2OConnectionError")
              /\ UNCHANGED wine_frame
    /\ UNCHANGED <<backend, artifact, connected, model, my_wine, predictions, stdout>>

\* Lines 10-12: wine_frame.columns = [...]; the setter refuses a list whose
\* length is not the frame's number of columns.
SetColumns(r) ==
    /\ At(r, 10)
    /\ IF IsBound(wine_frame[r]) /\ NCol(ValueOf(wine_frame[r])) = Len(WineColumns)
         THEN /\ wine_frame' = [wine_frame EXCEPT ![r] =
                                  Bound([ValueOf(wine_frame[r]) EXCEPT !.names = WineColumns])]
              /\ Advance(r, "columns")
         ELSE /\ Raise(r, "columns", "H2OValueError")
              /\ UNCHANGED wine_frame
    /\ UNCHANGED <<backend, artifact, connected, model, my_wine, predictions, stdout>>

\* Whether model.predict(frame) can return, and whether it can raise.
CanPredict(r) == Reachable(r) /\ IsBound(model[r]) /\ IsBound(wine_frame[r])

PredictOutcomes(r) ==
    IF ~CanPredict(r) THEN {"raise"}
    ELSE IF ValueOf(wine_frame[r]).names = TrainedColumns(ValueOf(model[r]))
           THEN {"value"}
           ELSE {"value", "raise"}

\* Line 13 with the prediction also bound as a twelfth column of the row.
PredictMutating(r) ==
    /\ At(r, 13)
    /\ \E outcome \in PredictOutcomes(r) :
         IF outcome = "value"
           THEN /\ predictions' = [predictions EXCEPT ![r] =
                       Bound(Prediction(ValueOf(model[r]), ValueOf(wine_frame[r])))]
                /\ wine_frame' = [wine_frame EXCEPT ![r] =
                       Bound([rows |-> <<Append(ValueOf(wine_frame[r]).rows[1], 0)>>,
                              names |-> Append(ValueOf(wine_frame[r]).names, "predict")])]
                /\ Advance(r, "predict")
           ELSE /\ Raise(r, "predict", "H2OResponseError")
                /\ UNCHANGED <<predictions, wine_frame>>
    /\ UNCHANGED <<backend, artifact, connected, model, my_wine, stdout>>

\* Line 13: predictions = model.predict(wine_frame)
Predict(r) ==
    /\ At(r, 13)
    /\ \E outcome \in PredictOutcomes(r) :
         IF outcome = "value"
           THEN /\ predictions' = [predictions EXCEPT ![r] =
                       Bound(Prediction(ValueOf(model[r]), ValueOf(wine_frame[r])))]
                /\ Advance(r, "predict")
           ELSE /\ Raise(r, "predict", "H2OResponseError")
                /\ UNCHANGED predictions
    /\ UNCHANGED <<backend, artifact, connected, model, my_wine, wine_frame, stdout>>

\* Line 14 written as predictions = print(predictions): print returns None.
PrintRebinding(r) ==
    /\ At(r, 14)
    /\ IF Reachable(r) /\ IsBound(predictions[r])
         THEN /\ stdout' = [stdout EXCEPT ![r] = Append(stdout[r], Repr(ValueOf(predictions[r])))]
              /\ predictions' = [predictions EXCEPT ![r] = Unbound]
              /\ Advance(r, "print")
         ELSE /\ Raise(r, "print", "H2OConnectionError")
              /\ UNCHANGED <<stdout, predictions>>
    /\ UNCHANGED <<backend, artifact, connected, model, my_wine, wine_frame>>

\* Line 14: print(predictions); the text is fetched from the backend.
PrintPredictions(r) ==
    /\ At(r, 14)
    /\ IF Reachable(r) /\ IsBound(predictions[r])
         THEN /\ stdout' = [stdout EXCEPT ![r] = Append(stdout[r], Repr(ValueOf(predictions[r])))]
              /\ Advance(r, "print")
         ELSE /\ Raise(r, "print", "H2OConnectionError")
              /\ UNCHANGED stdout
    /\ UNCHANGED <<backend, artifact, connected, model, my_wine, wine_frame, predictions>>

\* End of file: the interpreter exits with status 0.
Exit(r) ==
    /\ At(r, 15)
    /\ exit_code' = [exit_code EXCEPT ![r] = Bound(0)]
    /\ UNCHANGED <<backend, artifact, pc, connected, model, my_wine, wine_frame,
                   predictions, stdout, raised, log>>

\* The backend is a process of its own and can stop answering at any time.
BackendDies ==
    /\ backend = "ok"
    /\ backend' = "unreachable"
    /\ UNCHANGED <<artifact, pc, connected, model, my_wine, wine_frame,
                   predictions, stdout, raised, exit_code, log>>

Step(r) ==
    \/ H2oInit(r)
    \/ LoadModel(r)
    \/ MyWine(r)
    \/ WineFrame(r)
    \/ SetColumns(r)
    \/ Predict(r)
    \/ PrintPredictions(r)
    \/ Exit(r)

Init ==
    /\ backend \in BackendStates
    /\ artifact \in ArtifactStates
    /\ pc = [r \in Runs |-> 3]
    /\ connected = [r \in Runs |-> FALSE]
    /\ model = [r \in Runs |-> Unbound]
    /\ my_wine = [r \in Runs |-> Unbound]
    /\ wine_frame = [r \in Runs |-> Unbound]
    /\ predictions = [r \in Runs |-> Unbound]
    /\ stdout = [r \in Runs |-> <<>>]
    /\ raised = [r \in Runs |-> Unbound]
    /\ exit_code = [r \in Runs |-> Unbound]
    /\ log = [r \in Runs |-> <<>>]

Next ==
    \/ \E r \in Runs : Step(r)
    \/ BackendDies

Spec == Init /\ [][Next]_vars

\* The interpreter always executes the next statement of a run that has one.
FairSpec == Spec /\ \A r \in Runs : WF_vars(Step(r))

\* ------------------------------------------------------------- properties

Done(r, step) == \E i \in 1..Len(log[r]) : log[r][i] = [step |-> step, outcome |-> "ok"]

Failed(r, step) ==
    /\ log[r] # <<>>
    /\ log[r][Len(log[r])] = [step |-> step, outcome |-> "raise"]

Attempted(r, step) == \E i \in 1..Len(log[r]) : log[r][i].step = step

Terminated(r) == exit_code[r] # Unbound

PipelineOrder == <<"init", "load", "row", "frame", "columns", "predict", "print">>

\* C1: in every run the statements execute in the order init, load, row,
\* frame, columns, predict, print, each at most once and each only after the
\* one before it completed; the only thing ever printed is the result the
\* predictor returned.
C1_FixedOrder ==
    \A r \in Runs :
        /\ Len(log[r]) <= Len(PipelineOrder)
        /\ \A i \in 1..Len(log[r]) :
              /\ log[r][i].step = PipelineOrder[i]
              /\ i < Len(log[r]) => log[r][i].outcome = "ok"
        /\ Done(r, "load") => Done(r, "init")
        /\ Attempted(r, "predict") => Done(r, "load") /\ Done(r, "columns")
        /\ stdout[r] # <<>> =>
              /\ Done(r, "predict")
              /\ IsBound(predictions[r])
              /\ stdout[r] = <<Repr(ValueOf(predictions[r]))>>

C1_Witness == \E r \in Runs : Len(log[r]) = 7 /\ Done(r, "print") /\ stdout[r] # <<>>

\* C2 as stated: when nothing is stored at the model path, every run that
\* ends has ended with an error at the load step, and neither the prediction
\* nor the print is ever attempted.
C2_EveryRunFailsAtLoad ==
    artifact = "missing" =>
        \A r \in Runs :
            /\ Terminated(r) => Failed(r, "load")
            /\ ~Attempted(r, "predict") /\ ~Attempted(r, "print")

\* C2, amended: when nothing is stored at the model path, no run gets past
\* line 4 and neither the prediction nor the print is ever attempted; a run
\* whose h2o.init() completed can only end with an error at the load step,
\* with exit status 1 and no model bound.
C2_MissingArtifactFailsAtLoad ==
    artifact = "missing" =>
        \A r \in Runs :
            /\ pc[r] \in {3, 4}
            /\ ~Attempted(r, "predict") /\ ~Attempted(r, "print")
            /\ model[r] = Unbound /\ predictions[r] = Unbound /\ stdout[r] = <<>>
            /\ (Done(r, "init") /\ Terminated(r)) => Failed(r, "load")
            /\ Attempted(r, "load") =>
                  /\ Failed(r, "load")
                  /\ pc[r] = 4
                  /\ IsBound(raised[r])
                  /\ exit_code[r] = Bound(1)

C2_Witness ==
    /\ artifact = "missing"
    /\ backend = "ok"
    /\ \E r \in Runs : Done(r, "init") /\ Failed(r, "load") /\ exit_code[r] = Bound(1)

\* C4: once the column names are assigned, the frame is the single row
\* 7, 0.27, 0.36, 20.7, 0.045, 45, 170, 1.001, 3, 0.45, 8.8 under the names
\* fixed acidity ... alcohol, the i-th name over the i-th value.
C4_LabelledRow ==
    \A r \in Runs :
        Done(r, "columns") =>
            /\ IsBound(wine_frame[r])
            /\ ValueOf(wine_frame[r]).names =
                  <<"fixed acidity", "volatile acidity", "citric acid", "residual sugar",
                    "chlorides", "free sulfur dioxide", "total sulfur dioxide", "density",
                    "pH", "sulphates", "alcohol">>
            /\ ValueOf(wine_frame[r]).rows =
                  << <<7000, 270, 360, 20700, 45, 45000, 170000, 1001, 3000, 450, 8800>> >>

C4_Witness == \E r \in Runs : Done(r, "columns") /\ pc[r] = 13 /\ ~Attempted(r, "predict")

StepLine(step) == CASE step = "init" -> 3
                    [] step = "load" -> 4
                    [] step = "row" -> 7
                    [] step = "frame" -> 8
                    [] step = "columns" -> 10
                    [] step = "predict" -> 13
                    [] step = "print" -> 14

\* C5: a statement that raises is the last thing its run does: the run has
\* ended with exit status 1 at that statement with the exception recorded,
\* no statement was attempted after it or a second time, and nothing was
\* printed.
C5_FailFast ==
    \A r \in Runs :
        \A i \in 1..Len(log[r]) :
            log[r][i].outcome = "raise" =>
                /\ i = Len(log[r])
                /\ \A j \in 1..(i - 1) : log[r][j].step # log[r][i].step
                /\ pc[r] = StepLine(log[r][i].step)
                /\ exit_code[r] = Bound(1)
                /\ IsBound(raised[r])
                /\ stdout[r] = <<>>

C5_Witness ==
    \E r1, r2 \in Runs :
        /\ Failed(r1, "frame") /\ Terminated(r1)
        /\ Failed(r2, "predict") /\ Terminated(r2)

CorrectlyLabelled(r) ==
    /\ IsBound(model[r])
    /\ Done(r, "columns")
    /\ ValueOf(wine_frame[r]).names = TrainedColumns(ValueOf(model[r]))

C8_RowInvariant ==
    \A r \in Runs :
        Done(r, "columns") =>
            /\ IsBound(wine_frame[r])
            /\ Len(ValueOf(wine_frame[r]).rows) = 1
            /\ Len(ValueOf(wine_frame[r]).rows[1]) = Len(ValueOf(wine_frame[r]).names)
            /\ Len(ValueOf(wine_frame[r]).names) = 11

C8_Witness == \E r \in Runs : Done(r, "columns") /\ Done(r, "print") /\ exit_code[r] = Bound(0)

\* C9: no step changes what an earlier step built: a bound model handle, the
\* row literal, the labelled frame and a bound prediction keep their values
\* in every later step, and the connection stays up once made.
C9_NoMutation ==
    [][\A r \in Runs :
          /\ IsBound(model[r]) => model'[r] = model[r]
          /\ IsBound(my_wine[r]) => my_wine'[r] = my_wine[r]
          /\ Done(r, "columns") => wine_frame'[r] = wine_frame[r]
          /\ IsBound(predictions[r]) => predictions'[r] = predictions[r]
          /\ connected[r] => connected'[r]]_vars

C9_Witness ==
    \E r \in Runs :
        /\ IsBound(model[r]) /\ Done(r, "columns") /\ IsBound(predictions[r])
        /\ Done(r, "print")
        /\ exit_code[r] = Bound(0)

TerminalShape(r) ==
    /\ exit_code[r] \in {Unbound, Bound(0), Bound(1)}
    /\ exit_code[r] = Bound(0) =>
          /\ Len(log[r]) = Len(PipelineOrder)
          /\ \A i \in 1..Len(log[r]) : log[r][i] = [step |-> PipelineOrder[i], outcome |-> "ok"]
          /\ Len(stdout[r]) = 1
          /\ raised[r] = Unbound
    /\ exit_code[r] = Bound(1) =>
          /\ log[r] # <<>>
          /\ log[r][Len(log[r])].outcome = "raise"
          /\ \A i \in 1..(Len(log[r]) - 1) : log[r][i].outcome = "ok"
          /\ IsBound(raised[r])
    /\ \A i, j \in 1..Len(log[r]) : log[r][i].step = log[r][j].step => i = j

\* C10: every run ends and stays ended, either with status 0 after all
\* seven statements succeeded and one text was printed, or with status 1 at
\* the first statement that raised; no statement runs twice.
C10_Terminates ==
    /\ \A r \in Runs : <>[]Terminated(r)
    /\ [](\A r \in Runs : TerminalShape(r))

C10_Witness ==
    \E r1, r2 \in Runs : exit_code[r1] = Bound(0) /\ exit_code[r2] = Bound(1)

====
